---- MODULE Spec2Model ----
(***************************************************************************)
(* A model of src/main.rs: the ownership tutorial program.  main and its   *)
(* helpers are executed statement by statement over a heap of String       *)
(* values, a table of bindings (valid / moved / out of scope), the set of  *)
(* live references, and the printed output.  The slicing operation and     *)
(* first_word are pure operators, also applied to inputs drawn from        *)
(* bounded sets under SpecSlice.                                           *)
(***************************************************************************)
EXTENDS Integers, Sequences, FiniteSets, TLC

VARIABLES pc, bstate, ptr, ival, heap, nextId, refs, out, retv, probe,
          input, lo, hi, res, op

mainVars == <<pc, bstate, ptr, ival, heap, nextId, refs, out, retv, probe>>
sliceVars == <<input, lo, hi, res, op>>
vars == <<pc, bstate, ptr, ival, heap, nextId, refs, out, retv, probe,
          input, lo, hi, res, op>>

\* ------------------------------------------------------------------ bounds

\* Longest input string drawn for the slicing operation and first_word.
MaxLen == 4

\* Number of heap slots available to String values.
MaxValues == 5

\* ------------------------------------------------------------ string data

Space == " "

\* The literal "hello" (lines 44 and 59).
Hello == <<"h", "e", "l", "l", "o">>

\* The literal ", world!" appended at line 48.
CommaWorld == <<",", " ", "w", "o", "r", "l", "d", "!">>

\* The literal "hello world" (line 83).
HelloWorld == <<"h", "e", "l", "l", "o", " ", "w", "o", "r", "l", "d">>

World == <<"w", "o", "r", "l", "d">>

\* ------------------------------------------------------- slices (pure part)

NoRes == [ok |-> FALSE, start |-> 0, len |-> 0]

\* A mutant of SliceIndex: the end of the range is taken as inclusive of
\* nothing, so a non-empty view is one element short.
SliceIndexShort(seq, a, b) ==
  IF a <= b /\ b <= Len(seq)
    THEN [ok |-> TRUE, start |-> a, len |-> IF a < b THEN b - a - 1 ELSE 0]
    ELSE NoRes

\* &seq[a..b]: a half-open range; the slice stores the starting position and
\* the length (ending index minus starting index).  Indexing out of range
\* does not yield a slice.
SliceIndex(seq, a, b) ==
  IF a <= b /\ b <= Len(seq)
    THEN [ok |-> TRUE, start |-> a, len |-> b - a]
    ELSE NoRes

\* The elements a slice views in the sequence it points into.
SliceContent(seq, sl) == SubSeq(seq, sl.start + 1, sl.start + sl.len)

RECURSIVE FirstWordFromIncl(_, _)
\* A mutant of FirstWordFrom: the returned slice includes the space.
FirstWordFromIncl(s, i) ==
  IF i >= Len(s) THEN SliceIndex(s, 0, Len(s))
  ELSE IF s[i + 1] = Space THEN SliceIndex(s, 0, i + 1)
  ELSE FirstWordFromIncl(s, i + 1)

RECURSIVE FirstWordFrom(_, _)
\* The for loop of first_word from index i: the first space byte at index i
\* returns &s[..i]; the end of the bytes returns &s[..].
FirstWordFrom(s, i) ==
  IF i >= Len(s) THEN SliceIndex(s, 0, Len(s))
  ELSE IF s[i + 1] = Space THEN SliceIndex(s, 0, i)
  ELSE FirstWordFrom(s, i + 1)

first_word(s) == FirstWordFrom(s, 0)

\* ---------------------------------------------------------------- bindings

\* Every place of the program in declaration order: the named bindings of
\* main and of each helper, then the temporaries (name "-").
Table == <<
  [id |-> "s_44",           name |-> "s",              fn |-> "main",                   kind |-> "ref"],
  [id |-> "s_45",           name |-> "s",              fn |-> "main",                   kind |-> "String"],
  [id |-> "x",              name |-> "x",              fn |-> "main",                   kind |-> "i32"],
  [id |-> "y",              name |-> "y",              fn |-> "main",                   kind |-> "i32"],
  [id |-> "s1",             name |-> "s1",             fn |-> "main",                   kind |-> "String"],
  [id |-> "s2_60",          name |-> "s2",             fn |-> "main",                   kind |-> "String"],
  [id |-> "s3_68",          name |-> "s3",             fn |-> "main",                   kind |-> "String"],
  [id |-> "a_string_115",   name |-> "a_string",       fn |-> "take_ownership",         kind |-> "String"],
  [id |-> "a_int",          name |-> "a_int",          fn |-> "make_copy",              kind |-> "i32"],
  [id |-> "a_string_126",   name |-> "a_string",       fn |-> "take_and_give_back",     kind |-> "String"],
  [id |-> "s3_75",          name |-> "s3",             fn |-> "main",                   kind |-> "String"],
  [id |-> "a_string_135",   name |-> "a_string",       fn |-> "return_multiple_values", kind |-> "String"],
  [id |-> "another_string", name |-> "another_string", fn |-> "return_multiple_values", kind |-> "String"],
  [id |-> "s2_77",          name |-> "s2",             fn |-> "main",                   kind |-> "String"],
  [id |-> "s3_77",          name |-> "s3",             fn |-> "main",                   kind |-> "String"],
  [id |-> "s_144",          name |-> "s",              fn |-> "using_a_reference",      kind |-> "ref"],
  [id |-> "s_83",           name |-> "s",              fn |-> "main",                   kind |-> "String"],
  [id |-> "s_201",          name |-> "s",              fn |-> "first_word",             kind |-> "ref"],
  [id |-> "bytes",          name |-> "bytes",          fn |-> "first_word",             kind |-> "ref"],
  [id |-> "hello",          name |-> "hello",          fn |-> "main",                   kind |-> "ref"],
  [id |-> "world",          name |-> "world",          fn |-> "main",                   kind |-> "ref"],
  [id |-> "tmp_48",         name |-> "-",              fn |-> "main",                   kind |-> "ref"],
  [id |-> "tmp_68",         name |-> "-",              fn |-> "main",                   kind |-> "ref"],
  [id |-> "ret_126",        name |-> "-",              fn |-> "take_and_give_back",     kind |-> "String"],
  [id |-> "tmp_136",        name |-> "-",              fn |-> "return_multiple_values", kind |-> "ref"],
  [id |-> "ret_135_0",      name |-> "-",              fn |-> "return_multiple_values", kind |-> "String"],
  [id |-> "ret_135_1",      name |-> "-",              fn |-> "return_multiple_values", kind |-> "String"],
  [id |-> "ret_201",        name |-> "-",              fn |-> "first_word",             kind |-> "ref"] >>

Bindings == {Table[i].id : i \in 1..Len(Table)}

Names == {Table[i].name : i \in 1..Len(Table)} \ {"-"}

IndexOf(b) == CHOOSE i \in 1..Len(Table) : Table[i].id = b

Kind(b) == Table[IndexOf(b)].kind

ValueIds == 1..MaxValues

\* ------------------------------------------------------------ program order

\* The statements of main and of the helpers it calls, in execution order
\* (the program is straight-line: every helper is called once).
ProgramOrder == <<
  [at |-> "L44",       fn |-> "main"],
  [at |-> "L45",       fn |-> "main"],
  [at |-> "L48",       fn |-> "main"],
  [at |-> "push_str",  fn |-> "push_str"],
  [at |-> "L49",       fn |-> "main"],
  [at |-> "L51",       fn |-> "main"],
  [at |-> "L52",       fn |-> "main"],
  [at |-> "L59",       fn |-> "main"],
  [at |-> "L60",       fn |-> "main"],
  [at |-> "L68",       fn |-> "main"],
  [at |-> "clone_68",  fn |-> "clone"],
  [at |-> "L69",       fn |-> "main"],
  [at |-> "L71",       fn |-> "main"],
  [at |-> "L117",      fn |-> "take_ownership"],
  [at |-> "L118",      fn |-> "take_ownership"],
  [at |-> "L73",       fn |-> "main"],
  [at |-> "L123",      fn |-> "make_copy"],
  [at |-> "L124",      fn |-> "make_copy"],
  [at |-> "L75",       fn |-> "main"],
  [at |-> "L127",      fn |-> "take_and_give_back"],
  [at |-> "L128",      fn |-> "take_and_give_back"],
  [at |-> "L76",       fn |-> "main"],
  [at |-> "L77",       fn |-> "main"],
  [at |-> "L136",      fn |-> "return_multiple_values"],
  [at |-> "clone_136", fn |-> "clone"],
  [at |-> "L137",      fn |-> "return_multiple_values"],
  [at |-> "L139",      fn |-> "return_multiple_values"],
  [at |-> "L77d",      fn |-> "main"],
  [at |-> "L78",       fn |-> "main"],
  [at |-> "L80",       fn |-> "main"],
  [at |-> "L145",      fn |-> "using_a_reference"],
  [at |-> "L147",      fn |-> "using_a_reference"],
  [at |-> "L83",       fn |-> "main"],
  [at |-> "L84",       fn |-> "main"],
  [at |-> "L206",      fn |-> "first_word"],
  [at |-> "L209",      fn |-> "first_word"],
  [at |-> "L220",      fn |-> "first_word"],
  [at |-> "L84e",      fn |-> "main"],
  [at |-> "L90",       fn |-> "main"],
  [at |-> "L91",       fn |-> "main"],
  [at |-> "L93",       fn |-> "main"],
  [at |-> "L94",       fn |-> "main"],
  [at |-> "done",      fn |-> "-"],
  [at |-> "panic",     fn |-> "-"] >>

Labels == {ProgramOrder[i].at : i \in 1..Len(ProgramOrder)}

Pos(l) == CHOOSE i \in 1..Len(ProgramOrder) : ProgramOrder[i].at = l

\* The function whose body holds the statement at l.
FnOf(l) == ProgramOrder[Pos(l)].fn

\* The statement executed after the one at l.
Succ(l) == ProgramOrder[Pos(l) + 1].at

\* ------------------------------------------------------- ownership helpers

NoProbe == [name |-> "-", verdict |-> "-"]

\* A mutant of MoveState: the source binding stays usable after the move.
MoveStateKeepSource(bs, src, dst) == [bs EXCEPT ![dst] = "valid"]

\* A move (let s2 = s1, passing or returning a String by value): the
\* destination becomes the valid binding, the source is no longer valid.
MoveState(bs, src, dst) == [bs EXCEPT ![src] = "moved", ![dst] = "valid"]

\* A move copies the pointer (with length and capacity), not the content.
MovePtr(p, src, dst) == [p EXCEPT ![dst] = p[src]]

\* A mutant of CopyState: the integer is moved like a String.
CopyStateInvalidate(bs, src, dst) == [bs EXCEPT ![src] = "moved", ![dst] = "valid"]

\* A copy of an i32 (let y = x, make_copy(x)): the source stays valid.
CopyState(bs, src, dst) == [bs EXCEPT ![dst] = "valid"]

CopyVal(iv, src, dst) == [iv EXCEPT ![dst] = iv[src]]

\* String::from / clone: a new heap value holding content c (from: the value
\* it was cloned from, 0 for none).
Alloc(h, id, c, from) ==
  [h EXCEPT ![id] = [st |-> "live", content |-> c, drops |-> 0,
                     droppedBy |-> "none", cloneOf |-> from]]

\* A mutant of CloneHeap: the new allocation is made but the content is not
\* copied into it.
CloneHeapEmpty(h, id, v) == Alloc(h, id, <<>>, v)

\* clone(): a deep copy, the content of value v copied into a new allocation.
CloneHeap(h, id, v) == Alloc(h, id, h[v].content, v)

\* A mutant of ClonePtr: a shallow copy, the new binding points at the
\* original's heap value.
ShallowClonePtr(p, src, dst, id) == [p EXCEPT ![dst] = p[src]]

\* The binding receiving a clone owns the new allocation.
ClonePtr(p, src, dst, id) == [p EXCEPT ![dst] = id]

\* A reference held by holder onto target (a binding, or "static" for a
\* literal), shared or exclusive, viewing len elements from start.
Borrow(rs, holder, target, kind, start, len) ==
  rs \cup {[holder |-> holder, target |-> target, kind |-> kind,
            start |-> start, len |-> len]}

\* A mutant of EndBorrow: the reference stays live after its holder is gone.
EndBorrowLeak(rs, holder) == rs

\* The references a holder held end with it.
EndBorrow(rs, holder) == {r \in rs : r.holder # holder}

\* A mutant of PassReference: the argument is taken by value.
PassByValue(bs, target, param) == [bs EXCEPT ![target] = "moved", ![param] = "valid"]

\* Passing &target: the parameter comes into scope, the caller's binding is
\* left as it is.
PassReference(bs, target, param) == [bs EXCEPT ![param] = "valid"]

\* drop: the memory of value v is returned, on behalf of binding b.
Release(h, v, b) ==
  [h EXCEPT ![v] = [st |-> "freed", content |-> <<>>, drops |-> h[v].drops + 1,
                    droppedBy |-> b, cloneOf |-> h[v].cloneOf]]

\* A mutant of ScopeExitHeap: drop also runs for a binding that was moved out.
ScopeExitHeapAlways(h, bs, p, b) ==
  IF bs[b] \in {"valid", "moved"} /\ Kind(b) = "String" /\ p[b] \in ValueIds
    THEN Release(h, p[b], b)
    ELSE h

\* A binding goes out of scope: the value is cleaned up by drop unless it has
\* been moved to be owned by another binding.
ScopeExitHeap(h, bs, p, b) ==
  IF bs[b] = "valid" /\ Kind(b) = "String" /\ p[b] \in ValueIds
    THEN Release(h, p[b], b)
    ELSE h

\* ---------------------------------------------------------------- reading

HeapContent(v) == IF v \in ValueIds THEN heap[v].content ELSE <<>>

RefsOf(b) == {r \in refs : r.holder = b}

TargetContent(t) == IF t = "static" THEN Hello ELSE HeapContent(ptr[t])

RefTarget(b) == IF RefsOf(b) = {} THEN "none" ELSE (CHOOSE r \in RefsOf(b) : TRUE).target

RefContent(b) ==
  IF RefsOf(b) = {} THEN <<>>
  ELSE LET r == CHOOSE r \in RefsOf(b) : TRUE
           c == TargetContent(r.target)
       IN  IF r.start + r.len <= Len(c) THEN SliceContent(c, r) ELSE <<>>

\* What a read of binding b yields.
Val(b) ==
  IF Kind(b) = "i32" THEN ival[b]
  ELSE IF Kind(b) = "String" THEN HeapContent(ptr[b])
  ELSE RefContent(b)

\* The bindings the statement at l reads (uses, moves from or borrows).
ReadsAt(l) ==
  CASE l = "L45"  -> {"s_44"}
    [] l = "L48"  -> {"s_45"}
    [] l = "L49"  -> {"s_45"}
    [] l = "L52"  -> {"x"}
    [] l = "L60"  -> {"s1"}
    [] l = "L68"  -> {"s2_60"}
    [] l = "L69"  -> {"s2_60", "s3_68", "x", "y"}
    [] l = "L71"  -> {"s3_68"}
    [] l = "L117" -> {"a_string_115"}
    [] l = "L73"  -> {"x"}
    [] l = "L123" -> {"a_int"}
    [] l = "L75"  -> {"s2_60"}
    [] l = "L127" -> {"a_string_126"}
    [] l = "L76"  -> {"s3_75"}
    [] l = "L77"  -> {"s3_75"}
    [] l = "L136" -> {"a_string_135"}
    [] l = "L137" -> {"another_string", "a_string_135"}
    [] l = "L77d" -> {"ret_135_0", "ret_135_1"}
    [] l = "L78"  -> {"s2_77", "s3_77"}
    [] l = "L80"  -> {"s2_77"}
    [] l = "L145" -> {"s_144"}
    [] l = "L84"  -> {"s_83"}
    [] l = "L206" -> {"s_201"}
    [] l = "L209" -> {"bytes", "s_201"}
    [] l = "L90"  -> {"s_83"}
    [] l = "L91"  -> {"s_83"}
    [] l = "L93"  -> {"hello", "world"}
    [] OTHER      -> {}

\* The references the statement at l takes: the String (or integer) borrowed
\* and whether the borrow is shared or exclusive.  println! borrows each of
\* its arguments for the length of the statement.
BorrowsAt(l) ==
  CASE l = "L48"  -> {[target |-> "s_45", kind |-> "excl"]}
    [] l = "L49"  -> {[target |-> "s_45", kind |-> "shared"]}
    [] l = "L68"  -> {[target |-> "s2_60", kind |-> "shared"]}
    [] l = "L69"  -> {[target |-> "s2_60", kind |-> "shared"],
                      [target |-> "s3_68", kind |-> "shared"],
                      [target |-> "x", kind |-> "shared"],
                      [target |-> "y", kind |-> "shared"]}
    [] l = "L117" -> {[target |-> "a_string_115", kind |-> "shared"]}
    [] l = "L123" -> {[target |-> "a_int", kind |-> "shared"]}
    [] l = "L76"  -> {[target |-> "s3_75", kind |-> "shared"]}
    [] l = "L136" -> {[target |-> "a_string_135", kind |-> "shared"]}
    [] l = "L78"  -> {[target |-> "s2_77", kind |-> "shared"],
                      [target |-> "s3_77", kind |-> "shared"]}
    [] l = "L80"  -> {[target |-> "s2_77", kind |-> "shared"]}
    [] l = "L145" -> {[target |-> "s2_77", kind |-> "shared"]}
    [] l = "L84"  -> {[target |-> "s_83", kind |-> "shared"]}
    [] l = "L206" -> {[target |-> "s_83", kind |-> "shared"]}
    [] l = "L209" -> {[target |-> "s_83", kind |-> "shared"]}
    [] l = "L90"  -> {[target |-> "s_83", kind |-> "shared"]}
    [] l = "L91"  -> {[target |-> "s_83", kind |-> "shared"]}
    [] l = "L93"  -> {[target |-> "hello", kind |-> "shared"],
                      [target |-> "world", kind |-> "shared"]}
    [] OTHER      -> {}

\* The kind of the one borrow the statement at l keeps beyond the statement.
KindAt(l) == (CHOOSE q \in BorrowsAt(l) : TRUE).kind

\* ----------------------------------------------------- reads by name

\* The binding a name refers to in the function being executed: the latest
\* declared binding of that name still in scope (a later let shadows an
\* earlier one); "none" when the name is not in scope.
Resolve(n) ==
  LET c == {i \in 1..Len(Table) :
              /\ Table[i].name = n
              /\ Table[i].fn = FnOf(pc)
              /\ bstate[Table[i].id] \in {"valid", "moved"}}
  IN  IF c = {} THEN "none"
      ELSE Table[CHOOSE i \in c : \A j \in c : j <= i].id

\* Whether a read of name n would be accepted at this point of the program:
\* a binding whose value was moved is no longer valid.
CheckMove(n) ==
  IF Resolve(n) = "none" THEN "NotInScope"
  ELSE IF bstate[Resolve(n)] = "moved" THEN "UseAfterMove"
  ELSE "Ok"

\* -------------------------------------------------------------------- Init

InitMain ==
  /\ pc = "L44"
  /\ bstate = [b \in Bindings |-> "undeclared"]
  /\ ptr = [b \in Bindings |-> 0]
  /\ ival = [b \in Bindings |-> 0]
  /\ heap = [v \in ValueIds |-> [st |-> "unalloc", content |-> <<>>, drops |-> 0,
                                 droppedBy |-> "none", cloneOf |-> 0]]
  /\ nextId = 1
  /\ refs = {}
  /\ out = <<>>
  /\ retv = 0
  /\ probe = NoProbe

Init ==
  /\ InitMain
  /\ input = <<>>
  /\ lo = 0
  /\ hi = 0
  /\ res = NoRes
  /\ op = "none"

\* The statement at l is executed and control passes to the next one.
Step(l) ==
  /\ pc = l
  /\ pc' = Succ(l)
  /\ probe' = NoProbe
  /\ UNCHANGED sliceVars

\* -------------------------------------------------------------------- main

\* let s = "hello";
main_L44 ==
  /\ Step("L44")
  /\ bstate' = [bstate EXCEPT !["s_44"] = "valid"]
  /\ refs' = Borrow(refs, "s_44", "static", "shared", 0, Len(Hello))
  /\ UNCHANGED <<ptr, ival, heap, nextId, out, retv>>

\* let mut s = String::from(s);
main_L45 ==
  /\ Step("L45")
  /\ nextId <= MaxValues
  /\ heap' = Alloc(heap, nextId, Val("s_44"), 0)
  /\ ptr' = [ptr EXCEPT !["s_45"] = nextId]
  /\ nextId' = nextId + 1
  /\ bstate' = [bstate EXCEPT !["s_45"] = "valid"]
  /\ UNCHANGED <<ival, refs, out, retv>>

\* s.push_str(", world!"): the call takes &mut s.
main_L48 ==
  /\ Step("L48")
  /\ bstate' = [bstate EXCEPT !["tmp_48"] = "valid"]
  /\ refs' = Borrow(refs, "tmp_48", "s_45", KindAt("L48"), 0, Len(Val("s_45")))
  /\ UNCHANGED <<ptr, ival, heap, nextId, out, retv>>

\* push_str appends the literal through the reference and returns.
push_str ==
  /\ Step("push_str")
  /\ heap' = [heap EXCEPT ![ptr[RefTarget("tmp_48")]].content = @ \o CommaWorld]
  /\ bstate' = [bstate EXCEPT !["tmp_48"] = "gone"]
  /\ refs' = EndBorrow(refs, "tmp_48")
  /\ UNCHANGED <<ptr, ival, nextId, out, retv>>

\* println!("{}", s);
main_L49 ==
  /\ Step("L49")
  /\ out' = Append(out, <<Val("s_45")>>)
  /\ UNCHANGED <<bstate, ptr, ival, heap, nextId, refs, retv>>

\* let x = 5;
main_L51 ==
  /\ Step("L51")
  /\ bstate' = [bstate EXCEPT !["x"] = "valid"]
  /\ ival' = [ival EXCEPT !["x"] = 5]
  /\ UNCHANGED <<ptr, heap, nextId, refs, out, retv>>

\* let y = x;
main_L52 ==
  /\ Step("L52")
  /\ bstate' = CopyState(bstate, "x", "y")
  /\ ival' = CopyVal(ival, "x", "y")
  /\ UNCHANGED <<ptr, heap, nextId, refs, out, retv>>

\* let s1 = String::from("hello");
main_L59 ==
  /\ Step("L59")
  /\ nextId <= MaxValues
  /\ heap' = Alloc(heap, nextId, Hello, 0)
  /\ ptr' = [ptr EXCEPT !["s1"] = nextId]
  /\ nextId' = nextId + 1
  /\ bstate' = [bstate EXCEPT !["s1"] = "valid"]
  /\ UNCHANGED <<ival, refs, out, retv>>

\* let s2 = s1;
main_L60 ==
  /\ Step("L60")
  /\ bstate' = MoveState(bstate, "s1", "s2_60")
  /\ ptr' = MovePtr(ptr, "s1", "s2_60")
  /\ UNCHANGED <<ival, heap, nextId, refs, out, retv>>

\* let s3 = s2.clone(): the call takes &s2.
main_L68 ==
  /\ Step("L68")
  /\ bstate' = [bstate EXCEPT !["tmp_68"] = "valid"]
  /\ refs' = Borrow(refs, "tmp_68", "s2_60", KindAt("L68"), 0, Len(Val("s2_60")))
  /\ UNCHANGED <<ptr, ival, heap, nextId, out, retv>>

\* clone allocates, copies the content and returns the new String into s3.
clone_68 ==
  /\ Step("clone_68")
  /\ nextId <= MaxValues
  /\ heap' = CloneHeap(heap, nextId, ptr[RefTarget("tmp_68")])
  /\ ptr' = ClonePtr(ptr, RefTarget("tmp_68"), "s3_68", nextId)
  /\ nextId' = nextId + 1
  /\ bstate' = [bstate EXCEPT !["s3_68"] = "valid", !["tmp_68"] = "gone"]
  /\ refs' = EndBorrow(refs, "tmp_68")
  /\ UNCHANGED <<ival, out, retv>>

\* println!("{} {} {} {}", s2, s3, x, y);
main_L69 ==
  /\ Step("L69")
  /\ out' = Append(out, <<Val("s2_60"), Val("s3_68"), Val("x"), Val("y")>>)
  /\ UNCHANGED <<bstate, ptr, ival, heap, nextId, refs, retv>>

\* take_ownership(s3): s3's value moves into the parameter.
main_L71 ==
  /\ Step("L71")
  /\ bstate' = MoveState(bstate, "s3_68", "a_string_115")
  /\ ptr' = MovePtr(ptr, "s3_68", "a_string_115")
  /\ UNCHANGED <<ival, heap, nextId, refs, out, retv>>

\* println!("{}", a_string);
take_ownership_L117 ==
  /\ Step("L117")
  /\ out' = Append(out, <<Val("a_string_115")>>)
  /\ UNCHANGED <<bstate, ptr, ival, heap, nextId, refs, retv>>

\* } a_string goes out of scope and drop is called.
take_ownership_L118 ==
  /\ Step("L118")
  /\ heap' = ScopeExitHeap(heap, bstate, ptr, "a_string_115")
  /\ bstate' = [bstate EXCEPT !["a_string_115"] = "gone"]
  /\ refs' = EndBorrow(refs, "a_string_115")
  /\ UNCHANGED <<ptr, ival, nextId, out, retv>>

\* make_copy(x): x is copied into the parameter.
main_L73 ==
  /\ Step("L73")
  /\ bstate' = CopyState(bstate, "x", "a_int")
  /\ ival' = CopyVal(ival, "x", "a_int")
  /\ UNCHANGED <<ptr, heap, nextId, refs, out, retv>>

\* println!("{}", a_int);
make_copy_L123 ==
  /\ Step("L123")
  /\ out' = Append(out, <<Val("a_int")>>)
  /\ UNCHANGED <<bstate, ptr, ival, heap, nextId, refs, retv>>

\* } a_int goes out of scope and nothing happens.
make_copy_L124 ==
  /\ Step("L124")
  /\ heap' = ScopeExitHeap(heap, bstate, ptr, "a_int")
  /\ bstate' = [bstate EXCEPT !["a_int"] = "gone"]
  /\ UNCHANGED <<ptr, ival, nextId, refs, out, retv>>

\* take_and_give_back(s2): s2 is moved into the parameter.
main_L75 ==
  /\ Step("L75")
  /\ bstate' = MoveState(bstate, "s2_60", "a_string_126")
  /\ ptr' = MovePtr(ptr, "s2_60", "a_string_126")
  /\ UNCHANGED <<ival, heap, nextId, refs, out, retv>>

\* a_string: the return expression moves a_string out.
take_and_give_back_L127 ==
  /\ Step("L127")
  /\ bstate' = MoveState(bstate, "a_string_126", "ret_126")
  /\ ptr' = MovePtr(ptr, "a_string_126", "ret_126")
  /\ UNCHANGED <<ival, heap, nextId, refs, out, retv>>

\* } the parameter goes out of scope; the returned value is moved into
\* main's new s3.
take_and_give_back_L128 ==
  /\ Step("L128")
  /\ heap' = ScopeExitHeap(heap, bstate, ptr, "a_string_126")
  /\ bstate' = [MoveState(bstate, "ret_126", "s3_75")
                  EXCEPT !["a_string_126"] = "gone", !["ret_126"] = "gone"]
  /\ ptr' = MovePtr(ptr, "ret_126", "s3_75")
  /\ UNCHANGED <<ival, nextId, refs, out, retv>>

\* println!("{}", s3);
main_L76 ==
  /\ Step("L76")
  /\ out' = Append(out, <<Val("s3_75")>>)
  /\ UNCHANGED <<bstate, ptr, ival, heap, nextId, refs, retv>>

\* return_multiple_values(s3): s3 is moved into the parameter.
main_L77 ==
  /\ Step("L77")
  /\ bstate' = MoveState(bstate, "s3_75", "a_string_135")
  /\ ptr' = MovePtr(ptr, "s3_75", "a_string_135")
  /\ UNCHANGED <<ival, heap, nextId, refs, out, retv>>

\* let another_string = a_string.clone(): the call takes &a_string.
return_multiple_values_L136 ==
  /\ Step("L136")
  /\ bstate' = [bstate EXCEPT !["tmp_136"] = "valid"]
  /\ refs' = Borrow(refs, "tmp_136", "a_string_135", KindAt("L136"), 0,
                    Len(Val("a_string_135")))
  /\ UNCHANGED <<ptr, ival, heap, nextId, out, retv>>

\* clone allocates, copies the content and returns it into another_string.
clone_136 ==
  /\ Step("clone_136")
  /\ nextId <= MaxValues
  /\ heap' = CloneHeap(heap, nextId, ptr[RefTarget("tmp_136")])
  /\ ptr' = ClonePtr(ptr, RefTarget("tmp_136"), "another_string", nextId)
  /\ nextId' = nextId + 1
  /\ bstate' = [bstate EXCEPT !["another_string"] = "valid", !["tmp_136"] = "gone"]
  /\ refs' = EndBorrow(refs, "tmp_136")
  /\ UNCHANGED <<ival, out, retv>>

\* (another_string, a_string): both are moved into the returned tuple.
return_multiple_values_L137 ==
  /\ Step("L137")
  /\ bstate' = MoveState(MoveState(bstate, "another_string", "ret_135_0"),
                         "a_string_135", "ret_135_1")
  /\ ptr' = MovePtr(MovePtr(ptr, "another_string", "ret_135_0"),
                    "a_string_135", "ret_135_1")
  /\ UNCHANGED <<ival, heap, nextId, refs, out, retv>>

\* } the locals go out of scope, last declared first.
return_multiple_values_L139 ==
  /\ Step("L139")
  /\ heap' = ScopeExitHeap(ScopeExitHeap(heap, bstate, ptr, "another_string"),
                           bstate, ptr, "a_string_135")
  /\ bstate' = [bstate EXCEPT !["another_string"] = "gone", !["a_string_135"] = "gone"]
  /\ UNCHANGED <<ptr, ival, nextId, refs, out, retv>>

\* let (s2, s3) = ...: the tuple's fields are moved into the new s2 and s3.
main_L77d ==
  /\ Step("L77d")
  /\ bstate' = [MoveState(MoveState(bstate, "ret_135_0", "s2_77"), "ret_135_1", "s3_77")
                  EXCEPT !["ret_135_0"] = "gone", !["ret_135_1"] = "gone"]
  /\ ptr' = MovePtr(MovePtr(ptr, "ret_135_0", "s2_77"), "ret_135_1", "s3_77")
  /\ UNCHANGED <<ival, heap, nextId, refs, out, retv>>

\* println!("{} {}", s2, s3);
main_L78 ==
  /\ Step("L78")
  /\ out' = Append(out, <<Val("s2_77"), Val("s3_77")>>)
  /\ UNCHANGED <<bstate, ptr, ival, heap, nextId, refs, retv>>

\* using_a_reference(&s2): a reference is passed, not ownership.
main_L80 ==
  /\ Step("L80")
  /\ bstate' = PassReference(bstate, "s2_77", "s_144")
  /\ refs' = Borrow(refs, "s_144", "s2_77", KindAt("L80"), 0, Len(Val("s2_77")))
  /\ UNCHANGED <<ptr, ival, heap, nextId, out, retv>>

\* s.len()
using_a_reference_L145 ==
  /\ Step("L145")
  /\ retv' = Len(Val("s_144"))
  /\ UNCHANGED <<bstate, ptr, ival, heap, nextId, refs, out>>

\* } the reference goes out of scope; what it refers to is not dropped.
using_a_reference_L147 ==
  /\ Step("L147")
  /\ heap' = ScopeExitHeap(heap, bstate, ptr, "s_144")
  /\ bstate' = [bstate EXCEPT !["s_144"] = "gone"]
  /\ refs' = EndBorrow(refs, "s_144")
  /\ UNCHANGED <<ptr, ival, nextId, out, retv>>

\* let s = String::from("hello world");
main_L83 ==
  /\ Step("L83")
  /\ nextId <= MaxValues
  /\ heap' = Alloc(heap, nextId, HelloWorld, 0)
  /\ ptr' = [ptr EXCEPT !["s_83"] = nextId]
  /\ nextId' = nextId + 1
  /\ bstate' = [bstate EXCEPT !["s_83"] = "valid"]
  /\ UNCHANGED <<ival, refs, out, retv>>

\* first_word(&s): a slice of the whole String is passed.
main_L84 ==
  /\ Step("L84")
  /\ bstate' = PassReference(bstate, "s_83", "s_201")
  /\ refs' = Borrow(refs, "s_201", "s_83", KindAt("L84"), 0, Len(Val("s_83")))
  /\ UNCHANGED <<ptr, ival, heap, nextId, out, retv>>

\* let bytes = s.as_bytes();
first_word_L206 ==
  /\ Step("L206")
  /\ bstate' = [bstate EXCEPT !["bytes"] = "valid"]
  /\ refs' = Borrow(refs, "bytes", RefTarget("s_201"), KindAt("L206"), 0,
                    Len(Val("s_201")))
  /\ UNCHANGED <<ptr, ival, heap, nextId, out, retv>>

\* The for loop and the return expression (&s[..i] or &s[..]): the returned
\* slice points into what s points into.
first_word_L209 ==
  /\ Step("L209")
  /\ LET sl == first_word(Val("bytes"))
     IN  refs' = Borrow(refs, "ret_201", RefTarget("s_201"), KindAt("L209"),
                        sl.start, sl.len)
  /\ bstate' = [bstate EXCEPT !["ret_201"] = "valid"]
  /\ UNCHANGED <<ptr, ival, heap, nextId, out, retv>>

\* } bytes and s go out of scope.
first_word_L220 ==
  /\ Step("L220")
  /\ heap' = ScopeExitHeap(ScopeExitHeap(heap, bstate, ptr, "bytes"),
                           bstate, ptr, "s_201")
  /\ bstate' = [bstate EXCEPT !["bytes"] = "gone", !["s_201"] = "gone"]
  /\ refs' = EndBorrow(EndBorrow(refs, "bytes"), "s_201")
  /\ UNCHANGED <<ptr, ival, nextId, out, retv>>

\* ; the returned slice is not bound and ends with the statement.
main_L84e ==
  /\ Step("L84e")
  /\ bstate' = [bstate EXCEPT !["ret_201"] = "gone"]
  /\ refs' = EndBorrow(refs, "ret_201")
  /\ UNCHANGED <<ptr, ival, heap, nextId, out, retv>>

\* let hello = &s[0..5];
main_L90 ==
  /\ pc = "L90"
  /\ probe' = NoProbe
  /\ LET sl == SliceIndex(Val("s_83"), 0, 5)
     IN  IF sl.ok
           THEN /\ pc' = Succ("L90")
                /\ bstate' = [bstate EXCEPT !["hello"] = "valid"]
                /\ refs' = Borrow(refs, "hello", "s_83", KindAt("L90"), sl.start, sl.len)
           ELSE /\ pc' = "panic"
                /\ UNCHANGED <<bstate, refs>>
  /\ UNCHANGED <<ptr, ival, heap, nextId, out, retv, sliceVars>>

\* let world = &s[6..11];
main_L91 ==
  /\ pc = "L91"
  /\ probe' = NoProbe
  /\ LET sl == SliceIndex(Val("s_83"), 6, 11)
     IN  IF sl.ok
           THEN /\ pc' = Succ("L91")
                /\ bstate' = [bstate EXCEPT !["world"] = "valid"]
                /\ refs' = Borrow(refs, "world", "s_83", KindAt("L91"), sl.start, sl.len)
           ELSE /\ pc' = "panic"
                /\ UNCHANGED <<bstate, refs>>
  /\ UNCHANGED <<ptr, ival, heap, nextId, out, retv, sliceVars>>

\* println!("{}, {}!", hello, world);
main_L93 ==
  /\ Step("L93")
  /\ out' = Append(out, <<Val("hello"), Val("world")>>)
  /\ UNCHANGED <<bstate, ptr, ival, heap, nextId, refs, retv>>

\* The bindings of main still in scope, by their place in the Table.
InScopeMain(bs) ==
  {i \in 1..Len(Table) : Table[i].fn = "main" /\ bs[Table[i].id] \in {"valid", "moved"}}

\* The binding of main that leaves the scope next: the last declared.
NextToDrop(bs) ==
  Table[CHOOSE i \in InScopeMain(bs) : \A j \in InScopeMain(bs) : j <= i].id

\* } main's bindings go out of scope one by one; each String that was not
\* moved out is dropped.
main_L94 ==
  /\ pc = "L94"
  /\ probe' = NoProbe
  /\ IF InScopeMain(bstate) = {}
       THEN /\ pc' = "done"
            /\ UNCHANGED <<bstate, heap, refs>>
       ELSE LET b == NextToDrop(bstate)
            IN  /\ pc' = pc
                /\ heap' = ScopeExitHeap(heap, bstate, ptr, b)
                /\ bstate' = [bstate EXCEPT ![b] = "gone"]
                /\ refs' = EndBorrow(refs, b)
  /\ UNCHANGED <<ptr, ival, nextId, out, retv, sliceVars>>

\* A read of name n is tried at the current point of the program (as the
\* commented-out println! of lines 72 and 74) and its acceptance recorded.
Probe(n) ==
  /\ pc \notin {"done", "panic"}
  /\ probe = NoProbe
  /\ probe' = [name |-> n, verdict |-> CheckMove(n)]
  /\ UNCHANGED <<pc, bstate, ptr, ival, heap, nextId, refs, out, retv, sliceVars>>

Next ==
  \/ main_L44 \/ main_L45 \/ main_L48 \/ push_str \/ main_L49
  \/ main_L51 \/ main_L52 \/ main_L59 \/ main_L60
  \/ main_L68 \/ clone_68 \/ main_L69
  \/ main_L71 \/ take_ownership_L117 \/ take_ownership_L118
  \/ main_L73 \/ make_copy_L123 \/ make_copy_L124
  \/ main_L75 \/ take_and_give_back_L127 \/ take_and_give_back_L128
  \/ main_L76 \/ main_L77
  \/ return_multiple_values_L136 \/ clone_136
  \/ return_multiple_values_L137 \/ return_multiple_values_L139
  \/ main_L77d \/ main_L78
  \/ main_L80 \/ using_a_reference_L145 \/ using_a_reference_L147
  \/ main_L83 \/ main_L84
  \/ first_word_L206 \/ first_word_L209 \/ first_word_L220 \/ main_L84e
  \/ main_L90 \/ main_L91 \/ main_L93 \/ main_L94
  \/ \E n \in Names : Probe(n)

Spec == Init /\ [][Next]_vars

\* ------------------------------------------- the pure functions on inputs

Alphabet == {Space, "a", "b"}

\* Every string over the Alphabet of at most MaxLen bytes, and the String
\* main slices.
Inputs ==
  UNION {[1..n -> Alphabet] : n \in 0..MaxLen} \cup {HelloWorld}

\* The range bounds tried: every index up to one past MaxLen, and the bounds
\* main uses.
Indices == 0..(MaxLen + 1) \cup {5, 6, 11}

InitSlice ==
  /\ InitMain
  /\ input \in Inputs
  /\ lo \in Indices
  /\ hi \in Indices
  /\ res = NoRes
  /\ op = "none"

\* &input[lo..hi]
ApplySlice ==
  /\ op = "none"
  /\ res' = SliceIndex(input, lo, hi)
  /\ op' = "slice"
  /\ UNCHANGED <<input, lo, hi, mainVars>>

\* first_word(&input)
ApplyFirstWord ==
  /\ op = "none"
  /\ res' = first_word(input)
  /\ op' = "first_word"
  /\ UNCHANGED <<input, lo, hi, mainVars>>

NextSlice == ApplySlice \/ ApplyFirstWord

SpecSlice == InitSlice /\ [][NextSlice]_vars

\* ------------------------------------------------------------------ claims

After(l) == Pos(pc) > Pos(l)

\* The String bindings that are the valid owner of heap value v.
Owners(v) ==
  {b \in Bindings : Kind(b) = "String" /\ bstate[b] = "valid" /\ ptr[b] = v}

\* The moves of a String in main: the source, the statement, the destination.
Moves ==
  { [src |-> "s1",    at |-> "L60", dst |-> "s2_60"],
    [src |-> "s3_68", at |-> "L71", dst |-> "a_string_115"],
    [src |-> "s2_60", at |-> "L75", dst |-> "a_string_126"],
    [src |-> "s3_75", at |-> "L77", dst |-> "a_string_135"] }

\* C1: every String binding of main that is moved (s1 at line 60, s3 at 71,
\* s2 at 75, the rebound s3 at 77) is invalid from the move onward and a read
\* of it is rejected with UseAfterMove; the destination is valid right after
\* the move, points at the same value and reads "hello"; the println! of line
\* 69 prints "hello" for s2; and every statement of the program reads only
\* bindings that are valid when it is executed.
C1_MovedSourceRejected ==
  /\ \A m \in Moves :
       /\ After(m.at) => bstate[m.src] \in {"moved", "gone"}
       /\ bstate[m.src] = "gone" => pc \in {"L94", "done"}
       /\ (After(m.at) /\ probe # NoProbe /\ Resolve(probe.name) = m.src)
            => probe.verdict = "UseAfterMove"
       /\ pc = Succ(m.at) =>
            /\ bstate[m.dst] = "valid"
            /\ ptr[m.dst] = ptr[m.src]
            /\ heap[ptr[m.dst]].st = "live"
            /\ Val(m.dst) = Hello
            /\ probe # NoProbe /\ Resolve(probe.name) = m.dst => probe.verdict = "Ok"
  /\ (FnOf(pc) = "main" /\ After("L60") /\ pc # "L94" /\ probe.name = "s1")
       => probe.verdict = "UseAfterMove"
  /\ (pc \in {"L73", "L75"} /\ probe.name = "s3") => probe.verdict = "UseAfterMove"
  /\ (pc \in {"L76", "L77", "L77d"} /\ probe.name = "s2") => probe.verdict = "UseAfterMove"
  /\ (pc \in {"L68", "L69", "L71", "L73", "L75"} /\ probe.name = "s2") => probe.verdict = "Ok"
  /\ After("L69") => out[2][1] = Hello
  /\ \A b \in ReadsAt(pc) : bstate[b] = "valid"

\* C1 witness: s1 has been moved into s2, a read of s1 is rejected and s2
\* reads "hello".
C1_Witness ==
  /\ probe = [name |-> "s1", verdict |-> "UseAfterMove"]
  /\ bstate["s1"] = "moved"
  /\ bstate["s2_60"] = "valid"
  /\ Val("s2_60") = Hello

\* C2: at every point of the run each live heap String has exactly one valid
\* owning place (a named binding, a parameter, or the returned value on its
\* way to the caller's binding), and a value that is not live has none.
C2_SingleOwner ==
  \A v \in ValueIds :
    /\ heap[v].st = "live" => Cardinality(Owners(v)) = 1
    /\ heap[v].st # "live" => Owners(v) = {}

\* C2 witness: the tuple returned by return_multiple_values owns the clone
\* and the original, before main destructures it.
C2_Witness ==
  /\ pc = "L77d"
  /\ \E v, w \in ValueIds :
       /\ v # w
       /\ Owners(v) = {"ret_135_0"}
       /\ Owners(w) = {"ret_135_1"}
       /\ bstate["s3_75"] = "moved"

\* A step moves the value of b into a binding that becomes valid.
MovedOutInStep(b) ==
  \E d \in Bindings \ {b} :
    /\ bstate[d] # "valid"
    /\ bstate'[d] = "valid"
    /\ ptr'[d] = ptr[b]

ExitsScope(b) == bstate[b] \in {"valid", "moved"} /\ bstate'[b] = "gone"

C3_Step ==
  /\ \A b \in Bindings :
       (Kind(b) = "String" /\ ExitsScope(b)) =>
         IF bstate[b] = "valid" /\ ~MovedOutInStep(b)
           THEN /\ heap[ptr[b]].st = "live"
                /\ heap'[ptr[b]].st = "freed"
                /\ heap'[ptr[b]].droppedBy = b
           ELSE heap'[ptr[b]] = heap[ptr[b]]
  /\ \A v \in ValueIds :
       /\ (heap[v].st = "live" /\ heap'[v].st = "freed") =>
            \E b \in Owners(v) : ExitsScope(b) /\ ~MovedOutInStep(b)
       /\ heap[v].st = "freed" => heap'[v] = heap[v]
       /\ heap'[v].drops <= 1
       /\ heap'[v].st = "freed" <=> heap'[v].drops = 1
  /\ pc' = "done" => \A v \in ValueIds : heap'[v].st # "live"

\* C3: a heap String is released exactly in the step in which its current
\* owning binding goes out of scope without the value having been moved out;
\* a binding whose value was moved out releases nothing when it goes out of
\* scope; a released value is never released again (at most one drop per
\* value), and nothing is left live when main has ended.
C3_ReleaseOnScopeExit == [][C3_Step]_vars

\* C3 witness: take_ownership has returned; the value moved from s3 was
\* released by its parameter and s3 is moved-out in main.
C3_Witness ==
  /\ pc = "L73"
  /\ bstate["s3_68"] = "moved"
  /\ heap[ptr["s3_68"]].st = "freed"
  /\ heap[ptr["s3_68"]].droppedBy = "a_string_115"
  /\ heap[ptr["s3_68"]].drops = 1

\* C4: two live references to the same binding are both shared, and a
\* statement takes a reference to a binding only when no live reference
\* conflicts with it: a shared one when every live reference to the binding
\* is shared, an exclusive one when there is none.
C4_BorrowExclusivity ==
  /\ \A r1, r2 \in refs :
       (r1 # r2 /\ r1.target = r2.target) => (r1.kind = "shared" /\ r2.kind = "shared")
  /\ \A q \in BorrowsAt(pc) : \A r \in refs :
       r.target = q.target => (r.kind = "shared" /\ q.kind = "shared")

\* C4 witness: inside push_str the exclusive reference to s is live and is
\* the only reference to s.
C4_Witness ==
  /\ pc = "push_str"
  /\ \E r \in refs : r.kind = "excl" /\ r.target = "s_45"
  /\ Cardinality({r \in refs : r.target = "s_45"}) = 1

\* C5: after let y = x and after make_copy(x), x stays valid with the value
\* 5, y and a_int are valid with the value 5 while in scope, reads of x and y
\* are accepted, the printed values are 5, and x keeps its value when a copy
\* of it (a_int, y) goes out of scope.
C5_CopyKeepsSource ==
  /\ (After("L51") /\ bstate["x"] # "gone") => (bstate["x"] = "valid" /\ ival["x"] = 5)
  /\ (After("L52") /\ bstate["y"] # "gone") => (bstate["y"] = "valid" /\ ival["y"] = 5)
  /\ pc \in {"L123", "L124"} => (bstate["a_int"] = "valid" /\ ival["a_int"] = 5)
  /\ After("L124") => bstate["a_int"] = "gone"
  /\ bstate["x"] = "gone" => bstate["y"] = "gone"
  /\ (FnOf(pc) = "main" /\ After("L52") /\ pc # "L94" /\ probe.name \in {"x", "y"})
       => probe.verdict = "Ok"
  /\ After("L69") => (out[2][3] = 5 /\ out[2][4] = 5)
  /\ After("L123") => out[4] = <<5>>

\* C5 witness: make_copy has printed its copy; x, y and a_int all hold 5.
C5_Witness ==
  /\ pc = "L124"
  /\ bstate["x"] = "valid" /\ bstate["y"] = "valid" /\ bstate["a_int"] = "valid"
  /\ ival["x"] = 5 /\ ival["y"] = 5 /\ ival["a_int"] = 5
  /\ out[4] = <<5>>

\* C6: a clone is a second heap value with its own owner: right after
\* s2.clone() and a_string.clone() the original and the duplicate are both
\* valid, point at different values and read equal content ("hello"); while
\* both values are live their contents are equal; releasing the duplicate
\* leaves the original live with its content, and the two are released by
\* different bindings.
C6_DeepClone ==
  /\ pc = "L69" =>
       /\ bstate["s2_60"] = "valid" /\ bstate["s3_68"] = "valid"
       /\ ptr["s2_60"] # ptr["s3_68"]
       /\ Val("s2_60") = Hello /\ Val("s3_68") = Hello
       /\ heap[ptr["s3_68"]].cloneOf = ptr["s2_60"]
  /\ pc = "L137" =>
       /\ bstate["a_string_135"] = "valid" /\ bstate["another_string"] = "valid"
       /\ ptr["a_string_135"] # ptr["another_string"]
       /\ Val("a_string_135") = Hello /\ Val("another_string") = Hello
       /\ heap[ptr["another_string"]].cloneOf = ptr["a_string_135"]
  /\ After("L69") => (out[2][1] = out[2][2])
  /\ After("L78") => (out[6][1] = out[6][2])
  /\ \A v \in ValueIds :
       LET u == heap[v].cloneOf
       IN  u # 0 =>
             /\ u # v
             /\ Owners(u) \cap Owners(v) = {}
             /\ (heap[v].st = "live" /\ heap[u].st = "live")
                   => heap[v].content = heap[u].content
             /\ (heap[v].st = "freed" /\ heap[u].st = "live") => heap[u].content = Hello
             /\ (heap[u].st = "freed" /\ heap[v].st = "live") => heap[v].content = Hello
             /\ (heap[v].st = "freed" /\ heap[u].st = "freed")
                   => heap[v].droppedBy # heap[u].droppedBy

\* C6 witness: the clone made at line 68 has been released inside
\* take_ownership and the original is still owned by s2 and reads "hello".
C6_Witness ==
  /\ pc = "L73"
  /\ heap[ptr["s3_68"]].st = "freed"
  /\ heap[ptr["s3_68"]].cloneOf = ptr["s2_60"]
  /\ bstate["s2_60"] = "valid"
  /\ heap[ptr["s2_60"]].st = "live"
  /\ Val("s2_60") = Hello

HasSpace(s) == \E k \in 1..Len(s) : s[k] = Space

\* C9: first_word(input) is the slice from the start of input up to, not
\* including, the first space, and the whole input when it has no space: a
\* prefix of input without a space which, when shorter than input, is
\* followed in input by a space; for "hello world" its length is 5.
C9_FirstWord ==
  op = "first_word" =>
    LET w == SliceContent(input, res)
    IN  /\ res.ok
        /\ res.start = 0
        /\ Len(w) = res.len
        /\ Len(w) <= Len(input)
        /\ \A k \in 1..Len(w) : w[k] = input[k]
        /\ ~HasSpace(w)
        /\ Len(w) < Len(input) => input[Len(w) + 1] = Space
        /\ HasSpace(input) <=> Len(w) < Len(input)
        /\ ~HasSpace(input) => w = input
        /\ input = HelloWorld => (res.len = 5 /\ w = Hello)

\* C9 witness: an input with a space after its first byte and more bytes
\* behind it, cut at the space.
C9_Witness ==
  /\ op = "first_word"
  /\ Len(input) >= 3
  /\ input[2] = Space
  /\ input[1] # Space
  /\ res.len = 1

\* C8: using_a_reference(&s2) and first_word(&s) do not take ownership:
\* during the call and after it the caller's binding is the valid, only owner
\* of its value, with unchanged content, and a read of it is accepted; every
\* live reference points at a valid binding with a live value and stays
\* within its length; the slice first_word returns points at main's s, not
\* at a binding of first_word.
C8_BorrowLeavesOwner ==
  /\ (After("L80") /\ bstate["s2_77"] # "gone") =>
       /\ bstate["s2_77"] = "valid"
       /\ Owners(ptr["s2_77"]) = {"s2_77"}
       /\ Val("s2_77") = Hello
  /\ (After("L83") /\ bstate["s_83"] # "gone") =>
       /\ bstate["s_83"] = "valid"
       /\ Owners(ptr["s_83"]) = {"s_83"}
       /\ Val("s_83") = HelloWorld
  /\ pc = "L147" => retv = Len(Hello)
  /\ (pc \in {"L83", "L84"} /\ probe.name = "s2") => probe.verdict = "Ok"
  /\ (pc \in {"L84e", "L90", "L91", "L93"} /\ probe.name = "s") => probe.verdict = "Ok"
  /\ \A r \in refs :
       /\ bstate[r.holder] = "valid"
       /\ r.target # "static" =>
            /\ bstate[r.target] = "valid"
            /\ heap[ptr[r.target]].st = "live"
            /\ r.start + r.len <= Len(Val(r.target))
       /\ r.holder = "ret_201" =>
            (r.target = "s_83" /\ r.start = 0 /\ r.len = 5)
  /\ After("L93") => out[7] = <<Hello, World>>

\* C8 witness: first_word has returned; its bindings are gone and the
\* returned slice views "hello" in main's still valid s.
C8_Witness ==
  /\ pc = "L84e"
  /\ bstate["s_201"] = "gone"
  /\ bstate["s_83"] = "valid"
  /\ \E r \in refs : r.holder = "ret_201" /\ r.target = "s_83"
  /\ Val("ret_201") = Hello

\* C10: at the closing brace of main the String bound to s has been moved
\* out earlier and so is not dropped there, while x still goes out of scope.
C10_SMovedNotDropped ==
  /\ (pc = "L94" /\ bstate["s_83"] # "gone") => bstate["s_83"] = "moved"
  /\ \A v \in ValueIds : heap[v].droppedBy # "s_83"
  /\ pc = "done" => bstate["x"] = "gone"

====
